---- MODULE Spec2Model ----
(***************************************************************************)
(* Model of rest_apscheduler: DjangoJobStore (the job table and its CRUD   *)
(* and query operations) and DjangoResultStoreMixin (the execution ledger  *)
(* fed by the scheduler's lifecycle events).                               *)
(*                                                                         *)
(* The two database tables are sets of rows.  A primary key or NOT NULL    *)
(* constraint is a check made by the statement that writes, as in the      *)
(* database, so that a missing check shows as a duplicate or a null row.   *)
(* One ORM statement (SELECT, INSERT, UPDATE, DELETE) is atomic; a handler *)
(* is a sequence of statements.  In Spec and LedgerSpec every call runs to *)
(* completion alone; in ConcSpec two callers interleave their statements.  *)
(* The audit columns created_at / updated_at are not modelled.             *)
(***************************************************************************)
EXTENDS Integers, Sequences, FiniteSets, TLC

VARIABLES
    jobs,       \* table DjangoJob: set of rows
    execs,      \* table DjangoJobExecution: set of rows
    nextExecId, \* the BigAutoField sequence of DjangoJobExecution.id
    clock,      \* timezone.now()
    last,       \* the last completed call: its name, job id, outcome, result
    pc,         \* ConcSpec: per caller, the statement it is at
    loc,        \* ConcSpec: per caller, its arguments and local variables
    raced       \* ConcSpec: per caller, its add_job overlapped the other's

vars == <<jobs, execs, nextExecId, clock, last, pc, loc, raced>>

----------------------------------------------------------------------------
\* Bounds and value sets

MaxTime == 2
MaxExecRows == 2

NULL == 0
Times == 1..MaxTime
NullableTimes == {NULL} \cup Times

\* Text columns hold tuples of words; the empty tuple is NULL / None
NoText == <<>>

JobIds == {"A", "B"}
TriggerClasses == {"DateTrigger", "OtherTrigger"}

\* apscheduler Job objects handed to add_job / update_job
JobObjects == [id : JobIds, next_run_time : NullableTimes, trigger : TriggerClasses]

\* Outcomes of a call
OK == "OK"
ConflictingIdError == "ConflictingIdError"
JobLookupError == "JobLookupError"
JobDoesNotExist == "DjangoJob.DoesNotExist"
MultipleObjectsReturned == "MultipleObjectsReturned"
IntegrityError == "IntegrityError"
NotImplementedError == "NotImplementedError"
UnpicklingError == "UnpicklingError"

----------------------------------------------------------------------------
\* Serialisation: pickle.dumps(job.__getstate__()) and pickle.loads

NoState == [id |-> "", next_run_time |-> NULL, trigger |-> ""]

\* job.__getstate__(): the fields of the job that are persisted
getstate(job) == [id |-> job.id, next_run_time |-> job.next_run_time, trigger |-> job.trigger]

pickle_dumps(state) == [magic |-> "PKL", state |-> state]

\* Blobs that pickle.loads rejects; the empty blob is also falsy in lookup_job
BadBlob == [magic |-> "BAD", state |-> NoState]
EmptyBlob == [magic |-> "", state |-> NoState]

Decodable(blob) == blob.magic = "PKL"

\* pickle.loads + Job.__setstate__; only applied to decodable blobs
_reconstitute_job(blob) == blob.state

\* util.get_django_internal_datetime: the instant is kept, NULL stays NULL
get_django_internal_datetime(t) == t

\* util.get_apscheduler_datetime: the instant is kept, in the scheduler's zone
get_apscheduler_datetime(t) == t

----------------------------------------------------------------------------
\* Table DjangoJob

\* add_job: the trigger tag derived from the trigger's class
trigger_type(job) ==
    IF job.trigger = "DateTrigger" THEN "DATE"
    ELSE IF job.trigger = "IntervalTrigger" THEN "INTERVAL"
    ELSE IF job.trigger = "CronTrigger" THEN "CRON"
    ELSE ""

\* DjangoJob.objects.get(id=...) / filter(id=...): the matching rows
JobRows(tbl, id) == {r \in tbl : r.id = id}

NewJobRow(job) ==
    [id |-> job.id,
     next_run_time |-> get_django_internal_datetime(job.next_run_time),
     trigger |-> trigger_type(job),
     job_state |-> pickle_dumps(getstate(job))]

\* add_job: INSERT; the primary key rejects an id already present
add_job_no_pk_check(tbl, job) ==
    [jobs |-> tbl \cup {NewJobRow(job)}, exc |-> OK]

add_job_overwrite(tbl, job) ==
    IF JobRows(tbl, job.id) # {}
    THEN [jobs |-> (tbl \ JobRows(tbl, job.id)) \cup {NewJobRow(job)},
          exc |-> ConflictingIdError]
    ELSE [jobs |-> tbl \cup {NewJobRow(job)}, exc |-> OK]

add_job(tbl, job) ==
    IF JobRows(tbl, job.id) # {}
    THEN [jobs |-> tbl, exc |-> ConflictingIdError]
    ELSE [jobs |-> tbl \cup {NewJobRow(job)}, exc |-> OK]

\* Model.save() of a loaded row: UPDATE ... WHERE id = pk, and INSERT when the
\* UPDATE matched no row
SaveJobRow(tbl, row) == (tbl \ JobRows(tbl, row.id)) \cup {row}

\* update_job: the row as modified before save()
UpdatedJobRow_time_only(db_job, job) ==
    [db_job EXCEPT !.next_run_time = get_django_internal_datetime(job.next_run_time)]

UpdatedJobRow(db_job, job) ==
    [db_job EXCEPT !.next_run_time = get_django_internal_datetime(job.next_run_time),
                   !.job_state = pickle_dumps(getstate(job))]

update_job_upsert(tbl, job) ==
    IF JobRows(tbl, job.id) = {}
    THEN [jobs |-> tbl \cup {NewJobRow(job)}, exc |-> OK]
    ELSE [jobs |-> SaveJobRow(tbl, UpdatedJobRow(CHOOSE r \in JobRows(tbl, job.id) : TRUE, job)),
          exc |-> OK]

update_job_keeps_state(tbl, job) ==
    IF JobRows(tbl, job.id) = {}
    THEN [jobs |-> tbl, exc |-> JobLookupError]
    ELSE [jobs |-> SaveJobRow(tbl,
                     [(CHOOSE r \in JobRows(tbl, job.id) : TRUE)
                        EXCEPT !.next_run_time = job.next_run_time]),
          exc |-> OK]

update_job(tbl, job) ==
    LET rows == JobRows(tbl, job.id) IN
    IF rows = {} THEN [jobs |-> tbl, exc |-> JobLookupError]
    ELSE IF Cardinality(rows) > 1 THEN [jobs |-> tbl, exc |-> MultipleObjectsReturned]
    ELSE [jobs |-> SaveJobRow(tbl, UpdatedJobRow(CHOOSE r \in rows : TRUE, job)),
          exc |-> OK]

\* remove_job: get, then delete the row by primary key
remove_job(tbl, job_id) ==
    LET rows == JobRows(tbl, job_id) IN
    IF rows = {} THEN [jobs |-> tbl, exc |-> JobLookupError]
    ELSE IF Cardinality(rows) > 1 THEN [jobs |-> tbl, exc |-> MultipleObjectsReturned]
    ELSE [jobs |-> tbl \ rows, exc |-> OK]

\* remove_all_jobs: DELETE FROM DjangoJob
remove_all_jobs(tbl) == {}

\* lookup_job: the job, None (<<>>), or the decode error of a corrupt blob
lookup_job(tbl, job_id) ==
    LET rows == JobRows(tbl, job_id) IN
    IF rows = {} THEN [ret |-> <<>>, exc |-> OK]
    ELSE IF Cardinality(rows) > 1 THEN [ret |-> <<>>, exc |-> MultipleObjectsReturned]
    ELSE LET job_state == (CHOOSE r \in rows : TRUE).job_state IN
         IF job_state = EmptyBlob THEN [ret |-> <<>>, exc |-> OK]
         ELSE IF ~Decodable(job_state) THEN [ret |-> <<>>, exc |-> UnpicklingError]
         ELSE [ret |-> <<_reconstitute_job(job_state)>>, exc |-> OK]

----------------------------------------------------------------------------
\* Queries over DjangoJob

RECURSIVE Perms(_)
Perms(S) ==
    IF S = {} THEN {<<>>}
    ELSE UNION {{<<x>> \o p : p \in Perms(S \ {x})} : x \in S}

\* ORDER BY next_run_time ASC; where NULL sorts is the database's choice
KeyLe(a, b, nulls_first) ==
    IF a = NULL /\ b = NULL THEN TRUE
    ELSE IF a = NULL THEN nulls_first
    ELSE IF b = NULL THEN ~nulls_first
    ELSE a <= b

\* The orders in which a queryset with Meta.ordering may yield `rows`
ScanOrders(rows, nulls_first) ==
    {s \in Perms(rows) :
        \A i \in 1..Len(s) : \A j \in 1..Len(s) :
            i < j => KeyLe(s[i].next_run_time, s[j].next_run_time, nulls_first)}

\* filter(next_run_time__lte=dt): NULL never compares
DueRows_strict(tbl, dt) == {r \in tbl : r.next_run_time # NULL /\ r.next_run_time < dt}

DueRows(tbl, dt) == {r \in tbl : r.next_run_time # NULL /\ r.next_run_time <= dt}

\* _get_jobs on the scanned rows: the restored jobs, the ids that failed to
\* restore, and the table with those ids deleted
_get_jobs_keeps_failed(tbl, scan) ==
    LET good == SelectSeq(scan, LAMBDA r : Decodable(r.job_state)) IN
    [ret |-> [i \in 1..Len(good) |-> _reconstitute_job(good[i].job_state)],
     failed |-> {scan[i].id : i \in {k \in 1..Len(scan) : ~Decodable(scan[k].job_state)}},
     jobs |-> tbl]

_get_jobs(tbl, scan) ==
    LET good == SelectSeq(scan, LAMBDA r : Decodable(r.job_state))
        failed_job_ids ==
            {scan[i].id : i \in {k \in 1..Len(scan) : ~Decodable(scan[k].job_state)}}
    IN [ret |-> [i \in 1..Len(good) |-> _reconstitute_job(good[i].job_state)],
        failed |-> failed_job_ids,
        jobs |-> {r \in tbl : r.id \notin failed_job_ids}]

\* BaseJobStore._fix_paused_jobs_sorting: the leading run of paused jobs is
\* moved behind the rest
_fix_paused_jobs_sorting_noop(js) == js

_fix_paused_jobs_sorting(js) ==
    LET scheduled == {i \in 1..Len(js) : js[i].next_run_time # NULL} IN
    IF scheduled = {} THEN js
    ELSE LET i == CHOOSE k \in scheduled : \A m \in scheduled : k <= m IN
         IF i > 1 THEN SubSeq(js, i, Len(js)) \o SubSeq(js, 1, i - 1) ELSE js

\* get_next_run_time: earliest non-null next_run_time, NULL when there is none
get_next_run_time_any(tbl) ==
    IF tbl = {} THEN NULL
    ELSE (CHOOSE r \in tbl : \A q \in tbl : r.next_run_time <= q.next_run_time).next_run_time

get_next_run_time(tbl) ==
    LET active == {r \in tbl : r.next_run_time # NULL} IN
    IF active = {} THEN NULL
    ELSE get_apscheduler_datetime(
             (CHOOSE r \in active : \A q \in active : r.next_run_time <= q.next_run_time).next_run_time)

----------------------------------------------------------------------------
\* The record of the last completed call

Called(op, id, exc, ret, time) ==
    [op |-> op, id |-> id, exc |-> exc, ret |-> ret, time |-> time, failed |-> {}]

\* A scan also logs the ids it failed to restore ("Removing failed jobs: ...")
Scanned(op, ret, time, failed) ==
    [op |-> op, id |-> "", exc |-> OK, ret |-> ret, time |-> time, failed |-> failed]

\* A caller of ConcSpec between calls
Idle ==
    [op |-> "", id |-> "", job |-> NoState, row |-> <<>>, execution |-> <<>>, exc |-> "",
     time |-> NULL]

StoreUnchanged == UNCHANGED <<execs, nextExecId, clock, pc, loc, raced>>

----------------------------------------------------------------------------
\* DjangoJobStore calls, each running to completion

AddJob(job) ==
    /\ jobs' = add_job(jobs, job).jobs
    /\ last' = Called("add_job", job.id, add_job(jobs, job).exc, <<>>, NULL)
    /\ StoreUnchanged

UpdateJob(job) ==
    /\ jobs' = update_job(jobs, job).jobs
    /\ last' = Called("update_job", job.id, update_job(jobs, job).exc, <<>>, NULL)
    /\ StoreUnchanged

RemoveJob(job_id) ==
    /\ jobs' = remove_job(jobs, job_id).jobs
    /\ last' = Called("remove_job", job_id, remove_job(jobs, job_id).exc, <<>>, NULL)
    /\ StoreUnchanged

RemoveAllJobs ==
    /\ jobs' = remove_all_jobs(jobs)
    /\ last' = Called("remove_all_jobs", "", OK, <<>>, NULL)
    /\ StoreUnchanged

LookupJob(job_id) ==
    /\ last' = Called("lookup_job", job_id, lookup_job(jobs, job_id).exc,
                      lookup_job(jobs, job_id).ret, NULL)
    /\ UNCHANGED jobs
    /\ StoreUnchanged

GetDueJobs(now) ==
    \E nulls_first \in BOOLEAN :
    \E scan \in ScanOrders(DueRows(jobs, get_django_internal_datetime(now)), nulls_first) :
        /\ jobs' = _get_jobs(jobs, scan).jobs
        /\ last' = Scanned("get_due_jobs", _get_jobs(jobs, scan).ret, now,
                           _get_jobs(jobs, scan).failed)
        /\ StoreUnchanged

GetAllJobs ==
    \E nulls_first \in BOOLEAN :
    \E scan \in ScanOrders(jobs, nulls_first) :
        /\ jobs' = _get_jobs(jobs, scan).jobs
        /\ last' = Scanned("get_all_jobs",
                           _fix_paused_jobs_sorting(_get_jobs(jobs, scan).ret), NULL,
                           _get_jobs(jobs, scan).failed)
        /\ StoreUnchanged

GetNextRunTime ==
    /\ last' = Called("get_next_run_time", "", OK, <<>>, get_next_run_time(jobs))
    /\ UNCHANGED jobs
    /\ StoreUnchanged

\* The environment: a stored blob stops being restorable (its bytes are damaged
\* or truncated, or the code it names is gone)
CorruptBlob(job_id, blob) ==
    /\ \E r \in JobRows(jobs, job_id) :
          /\ Decodable(r.job_state)
          /\ jobs' = (jobs \ {r}) \cup {[r EXCEPT !.job_state = blob]}
    /\ UNCHANGED last
    /\ StoreUnchanged

----------------------------------------------------------------------------
\* Table DjangoJobExecution and the scheduler's events

START == "Job Added"
SUCCESS == "Executed"
MISSED == "Missed!"
ERROR == "Error!"

EVENT_JOB_ADDED == "EVENT_JOB_ADDED"
EVENT_JOB_EXECUTED == "EVENT_JOB_EXECUTED"
EVENT_JOB_ERROR == "EVENT_JOB_ERROR"
EVENT_JOB_MISSED == "EVENT_JOB_MISSED"
EVENT_JOB_MODIFIED == "EVENT_JOB_MODIFIED"
\* a code of apscheduler.events no listener is registered for
EVENT_JOB_REMOVED == "EVENT_JOB_REMOVED"

Event(code, job_id, exception, traceback) ==
    [code |-> code, job_id |-> job_id, exception |-> exception, traceback |-> traceback]

\* str(x) of an optional text
Str(x) == IF x = NoText THEN <<"None">> ELSE x

\* DjangoJobExecution.objects.get(job=...): the matching rows
ExecRows(tbl, job_id) == {e \in tbl : e.job = job_id}

\* Model.save() of a loaded execution: UPDATE ... WHERE id = pk, INSERT when
\* no row matched; run_time is NOT NULL
SaveExec(tbl, row) == {e \in tbl : e.id # row.id} \cup {row}

Handled(tbl, nid, exc, ret) == [execs |-> tbl, nextExecId |-> nid, exc |-> exc, ret |-> ret]

\* handle_execution_event
handle_execution_event_drops_finished(tbl, nid, event, now) ==
    LET rows == ExecRows(tbl, event.job_id) IN
    IF rows = {} THEN Handled(tbl, nid, OK, NULL)
    ELSE LET job_execution == CHOOSE e \in rows : TRUE IN
         Handled(SaveExec(tbl, [job_execution EXCEPT !.status = SUCCESS]),
                 nid, OK, job_execution.id)

handle_execution_event_creates(tbl, nid, event, now) ==
    LET rows == ExecRows(tbl, event.job_id) IN
    IF rows = {}
    THEN Handled(tbl \cup {[id |-> nid, job |-> event.job_id, status |-> SUCCESS,
                            run_time |-> now, type |-> "", finished |-> now,
                            exception |-> NoText, traceback |-> NoText]},
                 nid + 1, OK, nid)
    ELSE LET job_execution == CHOOSE e \in rows : TRUE IN
         Handled(SaveExec(tbl, [job_execution EXCEPT !.status = SUCCESS, !.finished = now]),
                 nid, OK, job_execution.id)

handle_execution_event(tbl, nid, event, now) ==
    LET rows == ExecRows(tbl, event.job_id) IN
    IF event.code # EVENT_JOB_EXECUTED THEN Handled(tbl, nid, NotImplementedError, NULL)
    ELSE IF rows = {} THEN Handled(tbl, nid, OK, NULL)
    ELSE IF Cardinality(rows) > 1 THEN Handled(tbl, nid, MultipleObjectsReturned, NULL)
    ELSE LET job_execution == CHOOSE e \in rows : TRUE IN
         Handled(SaveExec(tbl, [job_execution EXCEPT !.status = SUCCESS, !.finished = now]),
                 nid, OK, job_execution.id)

\* handle_error_event: the texts stored for an ERROR and for a MISSED event
ErrorException(event) ==
    IF event.exception # NoText THEN Str(event.exception)
    ELSE <<"Job", event.job_id, "raised an error!">>

ErrorTraceback(event) ==
    IF event.exception # NoText THEN Str(event.traceback) ELSE NoText

MissedException(event) == <<"Run time of job", event.job_id, "was missed!">>

handle_error_event(tbl, nid, event) ==
    LET rows == ExecRows(tbl, event.job_id) IN
    IF event.code = EVENT_JOB_ERROR THEN
        IF rows = {} THEN Handled(tbl, nid, OK, NULL)
        ELSE IF Cardinality(rows) > 1 THEN Handled(tbl, nid, MultipleObjectsReturned, NULL)
        ELSE LET job_execution == CHOOSE e \in rows : TRUE IN
             Handled(SaveExec(tbl, [job_execution EXCEPT !.status = ERROR,
                                                         !.exception = ErrorException(event),
                                                         !.traceback = ErrorTraceback(event)]),
                     nid, OK, job_execution.id)
    ELSE IF event.code = EVENT_JOB_MISSED THEN
        IF rows = {} THEN Handled(tbl, nid, OK, NULL)
        ELSE IF Cardinality(rows) > 1 THEN Handled(tbl, nid, MultipleObjectsReturned, NULL)
        ELSE LET job_execution == CHOOSE e \in rows : TRUE IN
             Handled(SaveExec(tbl, [job_execution EXCEPT !.status = MISSED,
                                                         !.exception = MissedException(event)]),
                     nid, OK, job_execution.id)
    ELSE Handled(tbl, nid, NotImplementedError, NULL)

\* handle_added_job_event: the row created when the job has no execution yet
NewExec(nid, event, job, now) ==
    [id |-> nid, job |-> event.job_id, status |-> START, type |-> job.trigger,
     run_time |-> now, finished |-> NULL, exception |-> NoText, traceback |-> NoText]

handle_added_job_event(jtbl, tbl, nid, event, now) ==
    LET jrows == JobRows(jtbl, event.job_id)
        rows == ExecRows(tbl, event.job_id) IN
    IF jrows = {} THEN Handled(tbl, nid, JobDoesNotExist, NULL)
    ELSE IF Cardinality(jrows) > 1 THEN Handled(tbl, nid, MultipleObjectsReturned, NULL)
    ELSE LET job == CHOOSE r \in jrows : TRUE IN
         IF rows = {} THEN Handled(tbl \cup {NewExec(nid, event, job, now)}, nid + 1, OK, nid)
         ELSE IF Cardinality(rows) > 1 THEN Handled(tbl, nid, MultipleObjectsReturned, NULL)
         ELSE LET execution == CHOOSE e \in rows : TRUE IN
              Handled(SaveExec(tbl, [execution EXCEPT !.status = START,
                                                      !.run_time = now,
                                                      !.type = job.trigger]),
                      nid, OK, execution.id)

\* handle_modify_event
handle_modify_event(jtbl, tbl, nid, event) ==
    LET jrows == JobRows(jtbl, event.job_id)
        rows == ExecRows(tbl, event.job_id) IN
    IF rows = {} THEN Handled(tbl, nid, OK, NULL)
    ELSE IF Cardinality(rows) > 1 THEN Handled(tbl, nid, MultipleObjectsReturned, NULL)
    ELSE IF jrows = {} THEN Handled(tbl, nid, JobDoesNotExist, NULL)
    ELSE IF Cardinality(jrows) > 1 THEN Handled(tbl, nid, MultipleObjectsReturned, NULL)
    ELSE LET job_execution == CHOOSE e \in rows : TRUE
             job == CHOOSE r \in jrows : TRUE IN
         IF job.next_run_time = NULL THEN Handled(tbl, nid, IntegrityError, NULL)
         ELSE Handled(SaveExec(tbl, [job_execution EXCEPT !.run_time = job.next_run_time]),
                      nid, OK, job_execution.id)

----------------------------------------------------------------------------
\* The listeners of register_event_listeners, each running to completion

LedgerUnchanged == UNCHANGED <<jobs, clock, pc, loc, raced>>

HandleExecutionEvent(event) ==
    LET r == handle_execution_event(execs, nextExecId, event, clock) IN
    /\ execs' = r.execs
    /\ nextExecId' = r.nextExecId
    /\ last' = Called("handle_execution_event", event.job_id, r.exc, <<>>, r.ret)
    /\ LedgerUnchanged

HandleErrorEvent(event) ==
    LET r == handle_error_event(execs, nextExecId, event) IN
    /\ execs' = r.execs
    /\ nextExecId' = r.nextExecId
    /\ last' = Called("handle_error_event", event.job_id, r.exc, <<>>, r.ret)
    /\ LedgerUnchanged

HandleAddedJobEvent(event) ==
    LET r == handle_added_job_event(jobs, execs, nextExecId, event, clock) IN
    /\ r.nextExecId <= MaxExecRows + 1
    /\ execs' = r.execs
    /\ nextExecId' = r.nextExecId
    /\ last' = Called("handle_added_job_event", event.job_id, r.exc, <<>>, r.ret)
    /\ LedgerUnchanged

HandleModifyEvent(event) ==
    LET r == handle_modify_event(jobs, execs, nextExecId, event) IN
    /\ execs' = r.execs
    /\ nextExecId' = r.nextExecId
    /\ last' = Called("handle_modify_event", event.job_id, r.exc, <<>>, r.ret)
    /\ LedgerUnchanged

\* timezone.now() advances
Tick ==
    /\ clock < MaxTime
    /\ clock' = clock + 1
    /\ UNCHANGED <<jobs, execs, nextExecId, last, pc, loc, raced>>

\* The events the scheduler dispatches to the listeners
\* An ERROR event carries an exception with its traceback, or neither
ErrorTexts == {<<NoText, NoText>>, <<<<"boom">>, <<"tb">>>>}
AddedEvents == {Event(EVENT_JOB_ADDED, j, NoText, NoText) : j \in JobIds}
ExecutedEvents == {Event(EVENT_JOB_EXECUTED, j, NoText, NoText) : j \in JobIds}
ErrorEvents ==
    {Event(EVENT_JOB_ERROR, j, x[1], x[2]) : j \in JobIds, x \in ErrorTexts}
MissedEvents == {Event(EVENT_JOB_MISSED, j, NoText, NoText) : j \in JobIds}
ModifiedEvents == {Event(EVENT_JOB_MODIFIED, j, NoText, NoText) : j \in JobIds}
OtherEvents == {Event(EVENT_JOB_REMOVED, j, NoText, NoText) : j \in JobIds}

\* The jobs the ledger specification stores
LedgerIds == {"A"}
LedgerJobObjects == {job \in JobObjects : job.id \in LedgerIds}

----------------------------------------------------------------------------
\* Two callers (threads or worker processes sharing the database) whose
\* statements interleave.  pc[t] names the statement caller t runs next, loc[t]
\* holds its arguments, the rows it has loaded and the outcome of its last call.

Callers == {1, 2}
Other(t) == 3 - t

ConcJobObjects ==
    {job \in JobObjects : job.next_run_time \in {NULL, 1} /\ job.trigger = "DateTrigger"}

ConcUnchanged == UNCHANGED <<clock, last>>

\* Caller t starts a call; overlapped: it is an add_job whose id is absent
\* while the other caller's add_job of that id is still to insert
Start(t, overlapped) == raced' = [raced EXCEPT ![t] = overlapped, ![Other(t)] = FALSE]

Finish(t, call, exc) ==
    /\ pc' = [pc EXCEPT ![t] = "idle"]
    /\ loc' = [loc EXCEPT ![t] = [Idle EXCEPT !.op = call.op, !.id = call.id, !.exc = exc]]

Goto(t, label, call) ==
    /\ pc' = [pc EXCEPT ![t] = label]
    /\ loc' = [loc EXCEPT ![t] = call]

\* add_job: the call, then its INSERT
CallAddJob(t, job) ==
    /\ pc[t] = "idle"
    /\ Goto(t, "add_job:create", [Idle EXCEPT !.op = "add_job", !.id = job.id, !.job = job])
    /\ Start(t, /\ pc[Other(t)] = "add_job:create"
                /\ loc[Other(t)].id = job.id
                /\ JobRows(jobs, job.id) = {})
    /\ UNCHANGED <<jobs, execs, nextExecId>>
    /\ ConcUnchanged

AddJobCreate(t) ==
    /\ pc[t] = "add_job:create"
    /\ jobs' = add_job(jobs, loc[t].job).jobs
    /\ Finish(t, loc[t], add_job(jobs, loc[t].job).exc)
    /\ UNCHANGED <<execs, nextExecId, raced>>
    /\ ConcUnchanged

\* update_job: DjangoJob.objects.get, then save()
UpdateJobGet(t, job) ==
    LET call == [Idle EXCEPT !.op = "update_job", !.id = job.id, !.job = job]
        rows == JobRows(jobs, job.id) IN
    /\ pc[t] = "idle"
    /\ IF rows = {} THEN Finish(t, call, JobLookupError)
       ELSE IF Cardinality(rows) > 1 THEN Finish(t, call, MultipleObjectsReturned)
       ELSE Goto(t, "update_job:save", [call EXCEPT !.row = <<CHOOSE r \in rows : TRUE>>])
    /\ Start(t, FALSE)
    /\ UNCHANGED <<jobs, execs, nextExecId>>
    /\ ConcUnchanged

UpdateJobSave(t) ==
    /\ pc[t] = "update_job:save"
    /\ jobs' = SaveJobRow(jobs, UpdatedJobRow(loc[t].row[1], loc[t].job))
    /\ Finish(t, loc[t], OK)
    /\ UNCHANGED <<execs, nextExecId, raced>>
    /\ ConcUnchanged

\* remove_job: DjangoJob.objects.get, then delete()
RemoveJobGet(t, job_id) ==
    LET call == [Idle EXCEPT !.op = "remove_job", !.id = job_id]
        rows == JobRows(jobs, job_id) IN
    /\ pc[t] = "idle"
    /\ IF rows = {} THEN Finish(t, call, JobLookupError)
       ELSE IF Cardinality(rows) > 1 THEN Finish(t, call, MultipleObjectsReturned)
       ELSE Goto(t, "remove_job:delete", [call EXCEPT !.row = <<CHOOSE r \in rows : TRUE>>])
    /\ Start(t, FALSE)
    /\ UNCHANGED <<jobs, execs, nextExecId>>
    /\ ConcUnchanged

RemoveJobDelete(t) ==
    /\ pc[t] = "remove_job:delete"
    /\ jobs' = jobs \ JobRows(jobs, loc[t].id)
    /\ Finish(t, loc[t], OK)
    /\ UNCHANGED <<execs, nextExecId, raced>>
    /\ ConcUnchanged

\* remove_all_jobs: one DELETE
RemoveAllJobsDelete(t) ==
    /\ pc[t] = "idle"
    /\ jobs' = remove_all_jobs(jobs)
    /\ Finish(t, [Idle EXCEPT !.op = "remove_all_jobs"], OK)
    /\ Start(t, FALSE)
    /\ UNCHANGED <<execs, nextExecId>>
    /\ ConcUnchanged

\* handle_added_job_event: get the job, get the execution, then save() the
\* execution found or create() one
AddedGetJob(t, event) ==
    LET call == [Idle EXCEPT !.op = "handle_added_job_event", !.id = event.job_id]
        jrows == JobRows(jobs, event.job_id) IN
    /\ pc[t] = "idle"
    /\ IF jrows = {} THEN Finish(t, call, JobDoesNotExist)
       ELSE IF Cardinality(jrows) > 1 THEN Finish(t, call, MultipleObjectsReturned)
       ELSE Goto(t, "added:get_execution", [call EXCEPT !.row = <<CHOOSE r \in jrows : TRUE>>])
    /\ Start(t, FALSE)
    /\ UNCHANGED <<jobs, execs, nextExecId>>
    /\ ConcUnchanged

AddedGetExecution(t) ==
    LET rows == ExecRows(execs, loc[t].id) IN
    /\ pc[t] = "added:get_execution"
    /\ IF rows = {} THEN Goto(t, "added:create", loc[t])
       ELSE IF Cardinality(rows) > 1 THEN Finish(t, loc[t], MultipleObjectsReturned)
       ELSE Goto(t, "added:save", [loc[t] EXCEPT !.execution = <<CHOOSE e \in rows : TRUE>>])
    /\ UNCHANGED <<jobs, execs, nextExecId, raced>>
    /\ ConcUnchanged

AddedSave(t) ==
    /\ pc[t] = "added:save"
    /\ execs' = SaveExec(execs, [loc[t].execution[1] EXCEPT !.status = START,
                                                            !.run_time = clock,
                                                            !.type = loc[t].row[1].trigger])
    /\ Finish(t, loc[t], OK)
    /\ UNCHANGED <<jobs, nextExecId, raced>>
    /\ ConcUnchanged

AddedCreate(t) ==
    /\ pc[t] = "added:create"
    /\ nextExecId <= MaxExecRows
    /\ execs' = execs \cup {NewExec(nextExecId, Event(EVENT_JOB_ADDED, loc[t].id, NoText, NoText),
                                    loc[t].row[1], clock)}
    /\ nextExecId' = nextExecId + 1
    /\ Finish(t, loc[t], OK)
    /\ UNCHANGED <<jobs, raced>>
    /\ ConcUnchanged

\* _get_jobs in a caller: the SELECT of the queryset, then the restoring of
\* the rows it yielded and the DELETE of the ids that failed
ScanSelect(t, op, now) ==
    \E nulls_first \in BOOLEAN :
    \E scan \in ScanOrders(IF op = "get_due_jobs"
                             THEN DueRows(jobs, get_django_internal_datetime(now))
                             ELSE jobs, nulls_first) :
        /\ pc[t] = "idle"
        /\ Goto(t, "_get_jobs:restore", [Idle EXCEPT !.op = op, !.row = scan, !.time = now])
        /\ Start(t, FALSE)
        /\ UNCHANGED <<jobs, execs, nextExecId>>
        /\ ConcUnchanged

ScanReturn(t) ==
    LET r == _get_jobs(jobs, loc[t].row) IN
    /\ pc[t] = "_get_jobs:restore"
    /\ jobs' = r.jobs
    /\ last' = Scanned(loc[t].op,
                       IF loc[t].op = "get_all_jobs" THEN _fix_paused_jobs_sorting(r.ret)
                       ELSE r.ret,
                       loc[t].time, r.failed)
    /\ Finish(t, loc[t], OK)
    /\ UNCHANGED <<execs, nextExecId, raced, clock>>

----------------------------------------------------------------------------
Init ==
    /\ jobs = {}
    /\ execs = {}
    /\ nextExecId = 1
    /\ clock = 1
    /\ last = Called("init", "", OK, <<>>, NULL)
    /\ pc = [t \in Callers |-> "idle"]
    /\ loc = [t \in Callers |-> Idle]
    /\ raced = [t \in Callers |-> FALSE]

Next ==
    \/ \E job \in JobObjects : AddJob(job)
    \/ \E job \in JobObjects : UpdateJob(job)
    \/ \E job_id \in JobIds : RemoveJob(job_id)
    \/ RemoveAllJobs
    \/ \E job_id \in JobIds : LookupJob(job_id)
    \/ \E now \in Times : GetDueJobs(now)
    \/ GetAllJobs
    \/ GetNextRunTime
    \/ \E job_id \in JobIds : \E blob \in {BadBlob, EmptyBlob} : CorruptBlob(job_id, blob)

Spec == Init /\ [][Next]_vars

LedgerNext ==
    \/ \E job \in LedgerJobObjects : AddJob(job)
    \/ \E job \in LedgerJobObjects : UpdateJob(job)
    \/ \E job_id \in JobIds : RemoveJob(job_id)
    \/ RemoveAllJobs
    \/ Tick
    \/ \E event \in AddedEvents : HandleAddedJobEvent(event)
    \/ \E event \in ExecutedEvents : HandleExecutionEvent(event)
    \/ \E event \in ErrorEvents \cup MissedEvents : HandleErrorEvent(event)
    \/ \E event \in ModifiedEvents : HandleModifyEvent(event)

LedgerSpec == Init /\ [][LedgerNext]_vars

\* The handlers are classmethods: besides the events the scheduler routes to
\* them, a caller can hand any of them an event of another code
HandlerNext ==
    \/ LedgerNext
    \/ \E event \in OtherEvents : HandleAddedJobEvent(event)
    \/ \E event \in OtherEvents : HandleExecutionEvent(event)
    \/ \E event \in OtherEvents : HandleErrorEvent(event)
    \/ \E event \in OtherEvents : HandleModifyEvent(event)

HandlerSpec == Init /\ [][HandlerNext]_vars

ConcNext ==
    \E t \in Callers :
        \/ \E job \in ConcJobObjects : CallAddJob(t, job)
        \/ AddJobCreate(t)
        \/ \E job \in ConcJobObjects : UpdateJobGet(t, job)
        \/ UpdateJobSave(t)
        \/ \E job_id \in JobIds : RemoveJobGet(t, job_id)
        \/ RemoveJobDelete(t)
        \/ RemoveAllJobsDelete(t)
        \/ \E event \in {e \in AddedEvents : e.job_id \in LedgerIds} : AddedGetJob(t, event)
        \/ AddedGetExecution(t)
        \/ AddedSave(t)
        \/ AddedCreate(t)

ConcSpec == Init /\ [][ConcNext]_vars

\* Scans of one caller against add_job and update_job of the other
ScanNext ==
    \E t \in Callers :
        \/ \E job \in ConcJobObjects : CallAddJob(t, job)
        \/ AddJobCreate(t)
        \/ \E job \in ConcJobObjects : UpdateJobGet(t, job)
        \/ UpdateJobSave(t)
        \/ \E now \in Times : ScanSelect(t, "get_due_jobs", now)
        \/ ScanSelect(t, "get_all_jobs", NULL)
        \/ ScanReturn(t)

ScanSpec == Init /\ [][ScanNext]_vars

\* The queries applied to every table of up to three jobs, each paused or
\* scheduled, its blob restorable or not
QueryIds == {"A", "B", "C"}
QueryChoices == [present : BOOLEAN, next_run_time : NullableTimes, ok : BOOLEAN]

QueryRow(id, c) ==
    LET row == NewJobRow([id |-> id, next_run_time |-> c.next_run_time, trigger |-> "DateTrigger"])
    IN IF c.ok THEN row ELSE [row EXCEPT !.job_state = BadBlob]

QueryInit ==
    /\ \E f \in [QueryIds -> QueryChoices] :
          jobs = {QueryRow(id, f[id]) : id \in {i \in QueryIds : f[i].present}}
    /\ execs = {}
    /\ nextExecId = 1
    /\ clock = 1
    /\ last = Called("init", "", OK, <<>>, NULL)
    /\ pc = [t \in Callers |-> "idle"]
    /\ loc = [t \in Callers |-> Idle]
    /\ raced = [t \in Callers |-> FALSE]

QueryNext ==
    \/ \E now \in Times : GetDueJobs(now)
    \/ GetAllJobs
    \/ GetNextRunTime

QuerySpec == QueryInit /\ [][QueryNext]_vars

\* The scheduler's loop: it asks for the jobs due at the current time and for
\* the next wake-up time, again and again, while time passes and stored blobs
\* may stop being restorable
PollNext ==
    \/ GetDueJobs(clock)
    \/ GetNextRunTime
    \/ Tick
    \/ \E job_id \in QueryIds : CorruptBlob(job_id, BadBlob)

PollSpec ==
    /\ QueryInit
    /\ [][PollNext]_vars
    /\ WF_vars(GetDueJobs(clock))
    /\ WF_vars(Tick)

----------------------------------------------------------------------------
\* Properties

NotFound == [ret |-> <<>>, exc |-> OK]

\* The step completes a call of `op` for job id `id`
Does(op, id) == last'.op = op /\ last'.id = id

\* C1: a successful remove_job(id), and remove_all_jobs(), leave no job record
\* and no execution record of a removed job.
C1_RemoveCascades ==
    [][/\ \A job_id \in JobIds :
            (Does("remove_job", job_id) /\ RemoveJob(job_id) /\ last'.exc = OK)
                => /\ lookup_job(jobs', job_id) = NotFound
                   /\ ExecRows(execs', job_id) = {}
       /\ (Does("remove_all_jobs", "") /\ RemoveAllJobs)
            => /\ jobs' = {}
               /\ \A r \in jobs : ExecRows(execs', r.id) = {}]_vars

\* C2: add_job of an id already stored fails with ConflictingIdError, leaves
\* the table as it was, and the id keeps exactly one record.
C2_DuplicateAddRejected ==
    [][\A job \in JobObjects :
          (Does("add_job", job.id) /\ AddJob(job) /\ JobRows(jobs, job.id) # {})
              => /\ last'.exc = ConflictingIdError
                 /\ jobs' = jobs
                 /\ Cardinality(JobRows(jobs', job.id)) = 1]_vars

C2_Witness ==
    /\ last.op = "add_job"
    /\ last.exc = ConflictingIdError
    /\ JobRows(jobs, last.id) # {}

\* C3: update_job and remove_job of an id that is not stored fail with
\* JobLookupError and leave the table as it was.
C3_AbsentIdNotFound ==
    [][/\ \A job \in JobObjects :
            (Does("update_job", job.id) /\ UpdateJob(job) /\ JobRows(jobs, job.id) = {})
                => (last'.exc = JobLookupError /\ jobs' = jobs)
       /\ \A job_id \in JobIds :
            (Does("remove_job", job_id) /\ RemoveJob(job_id) /\ JobRows(jobs, job_id) = {})
                => (last'.exc = JobLookupError /\ jobs' = jobs)]_vars

C3_Witness ==
    /\ last.op = "update_job"
    /\ last.exc = JobLookupError
    /\ JobRows(jobs, last.id) = {}
    /\ jobs # {}

\* C4: an EXECUTED, ERROR, MISSED or MODIFIED event for a job id without an
\* execution record raises nothing and leaves the ledger as it was.
C4_MissingRecordSkipped ==
    [][/\ \A event \in ExecutedEvents :
            (Does("handle_execution_event", event.job_id) /\ HandleExecutionEvent(event) /\ ExecRows(execs, event.job_id) = {})
                => (last'.exc = OK /\ execs' = execs /\ nextExecId' = nextExecId)
       /\ \A event \in ErrorEvents \cup MissedEvents :
            (Does("handle_error_event", event.job_id) /\ HandleErrorEvent(event) /\ ExecRows(execs, event.job_id) = {})
                => (last'.exc = OK /\ execs' = execs /\ nextExecId' = nextExecId)
       /\ \A event \in ModifiedEvents :
            (Does("handle_modify_event", event.job_id) /\ HandleModifyEvent(event) /\ ExecRows(execs, event.job_id) = {})
                => (last'.exc = OK /\ execs' = execs /\ nextExecId' = nextExecId)]_vars

C4_Witness ==
    /\ last.op = "handle_error_event"
    /\ last.exc = OK
    /\ ExecRows(execs, last.id) = {}
    /\ execs # {}

\* C5: an ADDED event, for any job id in any state, raises nothing and leaves
\* exactly one execution record of the id, with status START, run_time now and
\* the type of the job's record; an existing record is reused.
C5_AddedAlwaysRecorded ==
    [][\A event \in AddedEvents :
          (Does("handle_added_job_event", event.job_id) /\ HandleAddedJobEvent(event))
              => /\ last'.exc = OK
                 /\ \E e \in ExecRows(execs', event.job_id) :
                       /\ e.status = START
                       /\ e.run_time = clock
                       /\ \E r \in JobRows(jobs, event.job_id) : e.type = r.trigger
                 /\ ExecRows(execs, event.job_id) # {} => Cardinality(execs') = Cardinality(execs)]_vars

\* C6 as claimed: on an existing record EXECUTED sets SUCCESS and finished,
\* ERROR sets ERROR with exception and traceback both set, MISSED sets MISSED
\* with the "was missed" message.
C6_TransitionsAsClaimed ==
    [][/\ \A event \in ExecutedEvents :
            (Does("handle_execution_event", event.job_id) /\ HandleExecutionEvent(event) /\ ExecRows(execs, event.job_id) # {})
                => \A e \in ExecRows(execs', event.job_id) :
                      e.status = SUCCESS /\ e.finished = clock
       /\ \A event \in ErrorEvents :
            (Does("handle_error_event", event.job_id) /\ HandleErrorEvent(event) /\ ExecRows(execs, event.job_id) # {})
                => \A e \in ExecRows(execs', event.job_id) :
                      e.status = ERROR /\ e.exception # NoText /\ e.traceback # NoText
       /\ \A event \in MissedEvents :
            (Does("handle_error_event", event.job_id) /\ HandleErrorEvent(event) /\ ExecRows(execs, event.job_id) # {})
                => \A e \in ExecRows(execs', event.job_id) :
                      e.status = MISSED /\ e.exception = MissedException(event)]_vars

\* C6 amended: as above, but an ERROR event sets the traceback only when the
\* event carries an exception; without one the exception is the "raised an
\* error" message and the traceback is set to NULL.
C6_Transitions ==
    [][/\ \A event \in ExecutedEvents :
            (Does("handle_execution_event", event.job_id) /\ HandleExecutionEvent(event) /\ ExecRows(execs, event.job_id) # {})
                => /\ last'.exc = OK
                   /\ \A e \in ExecRows(execs', event.job_id) :
                         e.status = SUCCESS /\ e.finished = clock
       /\ \A event \in ErrorEvents :
            (Does("handle_error_event", event.job_id) /\ HandleErrorEvent(event) /\ ExecRows(execs, event.job_id) # {})
                => /\ last'.exc = OK
                   /\ \A e \in ExecRows(execs', event.job_id) :
                         /\ e.status = ERROR
                         /\ e.exception # NoText
                         /\ event.exception # NoText
                               => (e.exception = event.exception /\ e.traceback # NoText)
                         /\ event.exception = NoText
                               => (e.exception = <<"Job", event.job_id, "raised an error!">>
                                   /\ e.traceback = NoText)
       /\ \A event \in MissedEvents :
            (Does("handle_error_event", event.job_id) /\ HandleErrorEvent(event) /\ ExecRows(execs, event.job_id) # {})
                => /\ last'.exc = OK
                   /\ \A e \in ExecRows(execs', event.job_id) :
                         e.status = MISSED /\ e.exception = MissedException(event)]_vars

\* add job, ADDED, then EXECUTED: the record is SUCCESS with finished set
C6_Witness ==
    /\ last.op = "handle_execution_event"
    /\ last.exc = OK
    /\ \E e \in ExecRows(execs, last.id) :
          e.status = SUCCESS /\ e.finished # NULL /\ e.exception = NoText

\* C7: every job id has at most one execution record, also while ADDED
\* handlers of the same id interleave.
C7_OneExecutionPerJob ==
    \A job_id \in JobIds : Cardinality(ExecRows(execs, job_id)) <= 1

\* C8: every job id has at most one job record under any interleaving of
\* add_job, update_job, remove_job and remove_all_jobs; of two overlapping
\* add_job calls of one absent id, one succeeds and the other fails with
\* ConflictingIdError.
C8_OneRecordPerId ==
    /\ \A job_id \in JobIds : Cardinality(JobRows(jobs, job_id)) <= 1
    /\ \A t \in Callers :
          (raced[t] /\ pc[t] = "idle" /\ pc[Other(t)] = "idle")
              => \/ (loc[t].exc = OK /\ loc[Other(t)].exc = ConflictingIdError)
                 \/ (loc[t].exc = ConflictingIdError /\ loc[Other(t)].exc = OK)

C8_Witness ==
    \E t \in Callers :
        /\ raced[t]
        /\ pc[t] = "idle" /\ pc[Other(t)] = "idle"
        /\ loc[t].op = "add_job" /\ loc[Other(t)].op = "add_job"
        /\ loc[t].id = loc[Other(t)].id
        /\ loc[t].exc = OK
        /\ Cardinality(JobRows(jobs, loc[t].id)) = 1

\* C9 as claimed: get_all_jobs and get_due_jobs(now) never fail, and every
\* record with an undecodable blob is left out of the result and deleted, so
\* that lookup_job no longer finds it.
C9_QuarantineAsClaimed ==
    [][((Does("get_all_jobs", "") /\ GetAllJobs)
        \/ (Does("get_due_jobs", "") /\ \E now \in Times : GetDueJobs(now)))
          => /\ last'.exc = OK
             /\ \A r \in jobs :
                   ~Decodable(r.job_state)
                       => /\ \A i \in 1..Len(last'.ret) : last'.ret[i].id # r.id
                          /\ lookup_job(jobs', r.id) = NotFound]_vars

\* C9 amended: get_all_jobs does so for every undecodable record, and
\* get_due_jobs(now) for every undecodable record that is due (non-null
\* next_run_time <= now); an undecodable record that is not due is left stored.
C9_Quarantine ==
    [][/\ (Does("get_all_jobs", "") /\ GetAllJobs)
            => /\ last'.exc = OK
               /\ \A r \in jobs :
                     ~Decodable(r.job_state)
                         => /\ \A i \in 1..Len(last'.ret) : last'.ret[i].id # r.id
                            /\ r.id \in last'.failed
                            /\ lookup_job(jobs', r.id) = NotFound
       /\ \A now \in Times :
            (Does("get_due_jobs", "") /\ GetDueJobs(now))
            => /\ last'.exc = OK
               /\ \A r \in jobs :
                     ~Decodable(r.job_state)
                         => /\ \A i \in 1..Len(last'.ret) : last'.ret[i].id # r.id
                            /\ r \in DueRows(jobs, now)
                                  => (r.id \in last'.failed /\ lookup_job(jobs', r.id) = NotFound)
                            /\ r \notin DueRows(jobs, now) => r \in jobs']_vars

C9_Witness ==
    /\ last.op = "get_due_jobs"
    /\ last.failed # {}
    /\ last.ret # <<>>
    /\ \A job_id \in last.failed : lookup_job(jobs, job_id) = NotFound

\* C10: after a successful add_job or update_job of a job, lookup_job of its
\* id returns the state that call encoded; lookup_job of an absent id returns
\* None and raises nothing.
C10_LookupRoundTrip ==
    [][/\ \A job \in JobObjects :
            (last'.id = job.id /\ last'.exc = OK /\ (AddJob(job) \/ UpdateJob(job)))
                => lookup_job(jobs', job.id) = [ret |-> <<getstate(job)>>, exc |-> OK]
       /\ \A job_id \in JobIds :
            (Does("lookup_job", job_id) /\ LookupJob(job_id))
                => /\ JobRows(jobs, job_id) = {} => (last'.ret = <<>> /\ last'.exc = OK)
                   /\ \A r \in JobRows(jobs, job_id) :
                         Decodable(r.job_state)
                             => (last'.exc = OK /\ last'.ret = <<r.job_state.state>>)]_vars

\* an update changed the trigger, and lookup_job returned the updated state
C10_Witness ==
    /\ last.op = "lookup_job"
    /\ last.exc = OK
    /\ last.ret # <<>>
    /\ \E r \in JobRows(jobs, last.id) :
          /\ trigger_type(last.ret[1]) # r.trigger
          /\ last.ret[1].next_run_time = r.next_run_time

\* The elements of a sequence
Range(seq) == {seq[i] : i \in 1..Len(seq)}

\* The jobs are in ascending order of next_run_time
Ascending(js) ==
    \A i \in 1..Len(js) : \A j \in 1..Len(js) :
        i < j => js[i].next_run_time <= js[j].next_run_time

\* C11 as claimed: get_due_jobs(now) returns one job for every record with
\* next_run_time <= now, and no other, in ascending order of next_run_time.
C11_DueJobsAsClaimed ==
    [][Does("get_due_jobs", "")
          => LET due == {r \in jobs : r.next_run_time # NULL /\ r.next_run_time <= last'.time}
             IN /\ Len(last'.ret) = Cardinality(due)
                /\ {j.id : j \in Range(last'.ret)} = {r.id : r \in due}
                /\ Ascending(last'.ret)]_vars

\* C11 amended: get_due_jobs(now) returns exactly the jobs of the records with
\* next_run_time <= now whose blob can be decoded, in ascending order of
\* next_run_time; a due record whose blob cannot be decoded is left out.
C11_DueJobs ==
    [][Does("get_due_jobs", "")
          => LET due == {r \in jobs : /\ r.next_run_time # NULL
                                      /\ r.next_run_time <= last'.time
                                      /\ Decodable(r.job_state)}
             IN /\ Len(last'.ret) = Cardinality(due)
                /\ Range(last'.ret) = {r.job_state.state : r \in due}
                /\ \A j \in Range(last'.ret) :
                      j.next_run_time # NULL /\ j.next_run_time <= last'.time
                /\ Ascending(last'.ret)]_vars

\* three due jobs returned, not all of the same time
C11_Witness ==
    /\ last.op = "get_due_jobs"
    /\ Len(last.ret) = 3
    /\ last.ret[1].next_run_time < last.ret[3].next_run_time
    /\ last.ret[3].next_run_time = last.time

\* C12: get_next_run_time() is the least non-null next_run_time of the table,
\* and None when no record has a non-null next_run_time.
C12_NextRunTime ==
    [][Does("get_next_run_time", "")
          => LET active == {r.next_run_time : r \in jobs} \ {NULL}
             IN /\ active = {} => last'.time = NULL
                /\ active # {} => (last'.time \in active /\ \A t \in active : last'.time <= t)
                /\ last'.exc = OK]_vars

\* a paused job and two jobs of different times are stored
C12_Witness ==
    /\ last.op = "get_next_run_time"
    /\ last.time # NULL
    /\ \E r \in jobs : r.next_run_time = NULL
    /\ \E r \in jobs : r.next_run_time # NULL /\ r.next_run_time > last.time

\* C13: get_all_jobs() returns the jobs of all decodable records, every paused
\* job behind all scheduled jobs, the scheduled jobs in ascending order of
\* next_run_time.
C13_AllJobsPausedLast ==
    [][Does("get_all_jobs", "")
          => LET good == {r \in jobs : Decodable(r.job_state)}
                 ret == last'.ret
             IN /\ Len(ret) = Cardinality(good)
                /\ Range(ret) = {r.job_state.state : r \in good}
                /\ \A i \in 1..Len(ret) : \A j \in 1..Len(ret) :
                      i < j => \/ ret[j].next_run_time = NULL
                               \/ /\ ret[i].next_run_time # NULL
                                  /\ ret[i].next_run_time <= ret[j].next_run_time]_vars

C13_Witness ==
    /\ last.op = "get_all_jobs"
    /\ Len(last.ret) = 3
    /\ last.ret[1].next_run_time # NULL
    /\ last.ret[2].next_run_time > last.ret[1].next_run_time
    /\ last.ret[3].next_run_time = NULL

\* C14: an event of any kind for a job id whose job record is gone is handled
\* without an error propagating, with or without an execution record.
C14_DeletedJobNeverRaises ==
    [][/\ \A event \in AddedEvents :
            (Does("handle_added_job_event", event.job_id) /\ HandleAddedJobEvent(event)
                 /\ JobRows(jobs, event.job_id) = {})
                => last'.exc = OK
       /\ \A event \in ExecutedEvents :
            (Does("handle_execution_event", event.job_id) /\ HandleExecutionEvent(event)
                 /\ JobRows(jobs, event.job_id) = {})
                => last'.exc = OK
       /\ \A event \in ErrorEvents \cup MissedEvents :
            (Does("handle_error_event", event.job_id) /\ HandleErrorEvent(event)
                 /\ JobRows(jobs, event.job_id) = {})
                => last'.exc = OK
       /\ \A event \in ModifiedEvents :
            (Does("handle_modify_event", event.job_id) /\ HandleModifyEvent(event)
                 /\ JobRows(jobs, event.job_id) = {})
                => last'.exc = OK]_vars

\* C14, the MODIFIED case alone: the job record is gone, its execution record
\* is still there, and the handler raises nothing.
C14_ModifiedAfterRemoval ==
    [][\A event \in ModifiedEvents :
          (Does("handle_modify_event", event.job_id) /\ HandleModifyEvent(event)
               /\ JobRows(jobs, event.job_id) = {} /\ ExecRows(execs, event.job_id) # {})
              => last'.exc = OK]_vars

\* C17: with an execution record present, a MODIFIED event sets its run_time to
\* the job's next_run_time, paused (null) included, changes no other field and
\* raises nothing.
C17_ModifiedSetsRunTime ==
    [][\A event \in ModifiedEvents :
          (Does("handle_modify_event", event.job_id) /\ HandleModifyEvent(event)
               /\ ExecRows(execs, event.job_id) # {} /\ JobRows(jobs, event.job_id) # {})
              => \E e \in ExecRows(execs, event.job_id) : \E r \in JobRows(jobs, event.job_id) :
                    /\ last'.exc = OK
                    /\ execs' = SaveExec(execs, [e EXCEPT !.run_time = r.next_run_time])
                    /\ nextExecId' = nextExecId]_vars

\* C18: in every execution record, finished is set only under status SUCCESS,
\* exception and traceback only under status ERROR or MISSED.
C18_OutcomeAgreesWithStatus ==
    \A e \in execs :
        /\ e.finished # NULL => e.status = SUCCESS
        /\ (e.exception # NoText \/ e.traceback # NoText) => e.status \in {ERROR, MISSED}

\* C18, the second case alone: no record of status SUCCESS carries an exception
C18_SuccessCarriesNoException ==
    \A e \in execs : e.status = SUCCESS => e.exception = NoText

\* C20: a handler given an event of a code other than ADDED, EXECUTED, ERROR,
\* MISSED, MODIFIED raises and leaves the ledger as it was.
C20_UnknownCodeRaises ==
    [][\A event \in OtherEvents :
          /\ (Does("handle_added_job_event", event.job_id) /\ HandleAddedJobEvent(event))
                => (last'.exc # OK /\ execs' = execs)
          /\ (Does("handle_execution_event", event.job_id) /\ HandleExecutionEvent(event))
                => (last'.exc # OK /\ execs' = execs)
          /\ (Does("handle_error_event", event.job_id) /\ HandleErrorEvent(event))
                => (last'.exc # OK /\ execs' = execs)
          /\ (Does("handle_modify_event", event.job_id) /\ HandleModifyEvent(event))
                => (last'.exc # OK /\ execs' = execs)]_vars

\* C20, the ADDED handler alone: given an event of another code for a stored
\* job it writes nothing to the ledger.
C20_AddedHandlerWritesNothing ==
    [][\A event \in OtherEvents :
          (Does("handle_added_job_event", event.job_id) /\ HandleAddedJobEvent(event)
               /\ JobRows(jobs, event.job_id) # {})
              => execs' = execs]_vars

\* C15: update_job whose record was removed by a concurrent remove_job or
\* remove_all_jobs before its save fails with JobLookupError and does not put
\* a record of the id back.
C15_UpdateNeverReinserts ==
    [][\A t \in Callers :
          (pc[t] = "update_job:save" /\ pc'[t] = "idle" /\ JobRows(jobs, loc[t].id) = {})
              => /\ JobRows(jobs', loc[t].id) = {}
                 /\ loc'[t].exc = JobLookupError]_vars

\* C16: every job a scan returns, also while add_job or update_job of another
\* caller is in progress, is the decoded state of one row the SELECT yielded,
\* and its next_run_time is the next_run_time column of that same row, by
\* which the row was selected and ordered.
C16_ScanSeesWholeRecords ==
    [][\A t \in Callers :
          (pc[t] = "_get_jobs:restore" /\ pc'[t] = "idle")
              => /\ Len(last'.ret) = Len(loc[t].row)
                 /\ \A j \in Range(last'.ret) :
                       \E i \in 1..Len(loc[t].row) :
                          /\ loc[t].row[i].id = j.id
                          /\ loc[t].row[i].job_state = pickle_dumps(j)
                          /\ loc[t].row[i].next_run_time = j.next_run_time
                          /\ loc[t].op = "get_due_jobs"
                                => (j.next_run_time # NULL /\ j.next_run_time <= loc[t].time)]_vars

\* a scan has yielded a record that an update_job of the other caller, begun
\* before the SELECT, is about to replace
C16_Witness ==
    \E t \in Callers :
        /\ pc[t] = "_get_jobs:restore"
        /\ pc[Other(t)] = "update_job:save"
        /\ \E i \in 1..Len(loc[t].row) :
              /\ loc[t].row[i].id = loc[Other(t)].id
              /\ loc[t].row[i].next_run_time # loc[Other(t)].job.next_run_time

\* C19: while the scheduler keeps polling get_due_jobs as time passes, every
\* record with a non-null next_run_time whose blob cannot be decoded is
\* eventually deleted; no get_due_jobs or get_next_run_time call raises; and
\* each get_due_jobs call returns every decodable due record.
C19_CorruptNeverBlocks ==
    /\ \A id \in QueryIds :
          (\E r \in JobRows(jobs, id) : ~Decodable(r.job_state) /\ r.next_run_time # NULL)
              ~> (JobRows(jobs, id) = {})
    /\ [][/\ (Does("get_next_run_time", "") /\ GetNextRunTime) => last'.exc = OK
          /\ (Does("get_due_jobs", "") /\ GetDueJobs(clock)) => last'.exc = OK
          /\ (Does("get_due_jobs", "") /\ GetDueJobs(clock))
                => \A r \in jobs :
                      (r.next_run_time # NULL /\ r.next_run_time <= clock /\ Decodable(r.job_state))
                          => /\ r.job_state.state \in Range(last'.ret)
                             /\ r \in jobs']_vars

\* a poll that deleted a corrupt due record and returned a decodable one, with
\* another corrupt record not yet due
C19_Witness ==
    /\ last.op = "get_due_jobs"
    /\ last.failed # {}
    /\ Len(last.ret) > 0
    /\ \E r \in jobs : ~Decodable(r.job_state) /\ r.next_run_time # NULL /\ r.next_run_time > clock

====
